---- MODULE Spec2Model ----
(***************************************************************************)
(* The NELDA analysis server (src/server.py): the POST /runNelda handler   *)
(* run_my_script, the background unit process_nelda_analysis_background    *)
(* it starts on a thread, and the persistence adapter store_in_mongodb;     *)
(* and the scheduler script (src/cronjob_scheduler.py), whose              *)
(* process_events turns the rows of a CSV file into timed jobs.            *)
(*                                                                         *)
(* Python values are written as their repr: None is "None", the JSON       *)
(* booleans are "True" and "False", strings are themselves.  A dict is a   *)
(* function whose DOMAIN is its key set; a list is a sequence.             *)
(***************************************************************************)
EXTENDS Integers, Sequences, FiniteSets, TLC

\* ------------------------------------------------------------------ bounds
\* Number of expected fields; the program uses 58 (range(1, 59)).
NumFields == 3
\* Number of requests the client sends in the concurrent scenario.
MaxRequests == 2
\* Longest CSV file of plain rows (valid or with an invalid date).
MaxEvents == 6
\* Longest CSV file drawn from every kind of row.
MaxVariedEvents == 2

Slots == 1..MaxRequests

\* ---------------------------------------------------------- Python values
None == "None"
PyTrue == "True"
PyFalse == "False"

\* bool(v) for the values a trigger field can take
Truthy(v) == v \notin {None, "", PyFalse}

\* dict.get(key): the value, or None when the key is absent
Get(data, key) == IF key \in DOMAIN data THEN data[key] ELSE None

EmptyDict == <<>>

\* ------------------------------------------------------------ the triggers
TriggerKeys == {"electionId", "countryName", "types", "year", "mmdd", "pre"}
StringKeys == {"electionId", "countryName", "types", "year", "mmdd"}

\* A request body that is no JSON object: get_json() raises, or returns a
\* value without .get (null, a list, a string).
NotAnObject == [kind |-> "not_an_object"]

SampleText(key) ==
    CASE key = "electionId" -> "GHA-2024-P"
      [] key = "countryName" -> "Ghana"
      [] key = "types" -> "Presidential"
      [] key = "year" -> "2024"
      [] key = "mmdd" -> "1207"

\* Every JSON object over the trigger keys: each string field absent, empty
\* or filled; pre absent, true or false.
ObjectBodies ==
    { b \in UNION { [D -> {"", "text", PyTrue, PyFalse}] : D \in SUBSET TriggerKeys } :
        /\ \A k \in DOMAIN b \cap StringKeys : b[k] \in {"", "text"}
        /\ "pre" \in DOMAIN b => b["pre"] \in {PyTrue, PyFalse} }

Fill(b) == [k \in DOMAIN b |-> IF b[k] = "text" THEN SampleText(k) ELSE b[k]]

AllBodies == { Fill(b) : b \in ObjectBodies } \cup {NotAnObject}

ValidBody(pre) == [k \in TriggerKeys |-> IF k = "pre" THEN pre ELSE SampleText(k)]

\* --------------------------------------------------------- expected fields
\* f"NELDA{i}"
Field(i) == "NELDA" \o ToString(i)

\* expected_fields = [f"NELDA{i}" for i in range(1, 59)]
expected_fields == [i \in 1..NumFields |-> Field(i)]

\* nelda_properties: the keys of the full response schema
nelda_properties == { Field(i) : i \in 1..NumFields }

\* The enum of nelda_variable_schema
nelda_variable_enum == {"Yes", "No", "Unsure", "N/A"}

\* Reverse of a list
Reversed(list) == [i \in DOMAIN list |-> list[Len(list) + 1 - i]]

\* The missing fields collected in the wrong order
MissingFieldsReversed(expected, parsed) ==
    Reversed(SelectSeq(expected, LAMBDA field : field \notin DOMAIN parsed))

\* [field for field in expected_fields if field not in parsed_response]
MissingFields(expected, parsed) ==
    SelectSeq(expected, LAMBDA field : field \notin DOMAIN parsed)

\* parsed_response.update(followup_parsed)
Update(parsed, followup) ==
    [k \in DOMAIN parsed \cup DOMAIN followup |->
        IF k \in DOMAIN followup THEN followup[k] ELSE parsed[k]]

\* len([f for f in expected_fields if f in parsed_response])
\* Every key of the record counted, expected or not
TotalFieldsReturnedAnyKey(expected, parsed) == Cardinality(DOMAIN parsed)

TotalFieldsReturned(expected, parsed) ==
    Len(SelectSeq(expected, LAMBDA f : f \in DOMAIN parsed))

\* Every originally missing field counted as recovered
MissingFieldsRecoveredAll(missing, still) == Len(missing)

\* len(missing_fields) - len(still_missing) if missing_fields else 0
MissingFieldsRecovered(missing, still) ==
    IF missing # <<>> THEN Len(missing) - Len(still) ELSE 0

\* ----------------------------------------------------------- environment
\* Every dict over a subset of keys with values in vals
Dicts(keys, vals) == UNION { [D -> vals] : D \in SUBSET keys }

\* A key the response schema does not declare
OtherKey == "notes"

\* What the client sends and what the generation service answers.  In the
\* scenario "single" one request is sent and every body and every answer
\* is possible; in "concurrent" several requests are in flight at once and
\* each draws from a few representative bodies and answers.
Scenarios == {"single", "concurrent"}

ActiveSlots(sc) == IF sc = "single" THEN {1} ELSE Slots

Bodies(sc) ==
    IF sc = "single"
    THEN AllBodies
    ELSE { ValidBody(PyTrue),
           [k \in StringKeys |-> SampleText(k)],
           NotAnObject }

\* json.loads(jsonResponse.text) of the first structured call
StructuredAnswers(sc) ==
    IF sc = "single"
    THEN Dicts(nelda_properties \cup {OtherKey}, {"Yes"})
    ELSE { [k \in nelda_properties |-> "Yes"],
           [k \in {Field(1)} |-> "Yes"] }

\* json.loads(followup_response.text) of the follow-up call
FollowupAnswers(sc) ==
    IF sc = "single"
    THEN Dicts(nelda_properties \cup {OtherKey}, {"Yes", "No"})
    ELSE { [k \in nelda_properties \ {Field(1)} |-> "No"] }

\* response.text of the free-text call
RawText == "free-text analysis"

\* datetime.utcnow().isoformat()
Timestamp == "utcnow"

\* ------------------------------------------------------------------ state
VARIABLES
    scenario,          \* the environment's scenario, fixed at start
    hpc,               \* hpc[r]: position of the handler of request r
    data,              \* data[r]: request.get_json() of request r
    http_response,     \* http_response[r]: what run_my_script returned
    upc,               \* upc[r]: position of the background unit of request r
    request_data,      \* request_data[r]: the unit's argument
    raw_response,      \* raw_response[r]: response.text
    jsonResponse,      \* jsonResponse[r]: the object in jsonResponse.text
    parsed_response,   \* parsed_response[r]: the structured record
    missing_fields,    \* missing_fields[r]: list computed before the follow-up
    still_missing,     \* still_missing[r]: list computed after the merge
    mongodb_document,  \* mongodb_document[r]: the document handed to the store
    calls,             \* calls[r]: the external calls the unit issued, in order
    log,               \* log[r]: the lines the unit printed, in order
    collection,        \* the documents inserted in jsoncodings, per unit
    spc,               \* position of the scheduler script in process_events
    events,            \* events: the rows read from the CSV file
    jobs_to_create,    \* jobs_to_create: (event, target_date, is_pre_event)
    batch_start,       \* i: index in jobs_to_create where the batch starts
    batch_pos,         \* j: index of the current job in the batch
    success_count,     \* success_count: jobs the API accepted
    timeline           \* requests sent to the API and sleeps, in order

vars == << scenario, hpc, data, http_response, upc, request_data, raw_response,
           jsonResponse, parsed_response, missing_fields, still_missing, mongodb_document,
           calls, log, collection,
           spc, events, jobs_to_create, batch_start, batch_pos, success_count,
           timeline >>

server_vars == << scenario, hpc, data, http_response, upc, request_data, raw_response,
                  jsonResponse, parsed_response, missing_fields, still_missing,
                  mongodb_document, calls, log, collection >>

scheduler_vars == << spc, events, jobs_to_create, batch_start, batch_pos,
                     success_count, timeline >>

handler_vars == << hpc, data, http_response >>

unit_vars == << raw_response, jsonResponse, parsed_response, missing_fields, still_missing,
                mongodb_document >>

NoResponse == [status |-> 0, body |-> EmptyDict]
NoDocument == EmptyDict

\* One printed line: the message and the values interpolated into it
Line(msg, values) == [msg |-> msg, values |-> values]

\* One external call: its kind and, for a structured call, the property
\* names of its response schema
Call(kind, schema) == [kind |-> kind, schema |-> schema]

InitFor(sc) ==
    /\ scenario = sc
    /\ hpc = [r \in Slots |-> "idle"]
    /\ data = [r \in Slots |-> EmptyDict]
    /\ http_response = [r \in Slots |-> NoResponse]
    /\ upc = [r \in Slots |-> "not_started"]
    /\ request_data = [r \in Slots |-> EmptyDict]
    /\ raw_response = [r \in Slots |-> None]
    /\ jsonResponse = [r \in Slots |-> EmptyDict]
    /\ parsed_response = [r \in Slots |-> EmptyDict]
    /\ missing_fields = [r \in Slots |-> <<>>]
    /\ still_missing = [r \in Slots |-> <<>>]
    /\ mongodb_document = [r \in Slots |-> NoDocument]
    /\ calls = [r \in Slots |-> <<>>]
    /\ log = [r \in Slots |-> <<>>]
    /\ collection = [r \in Slots |-> <<>>]
    /\ spc = "not_run"
    /\ events = <<>>
    /\ jobs_to_create = <<>>
    /\ batch_start = 0
    /\ batch_pos = 0
    /\ success_count = 0
    /\ timeline = <<>>

Init == InitFor("single")

InitConcurrent == InitFor("concurrent")

\* ------------------------------------------------------------ the handler
\* The validation with pre tested for truth like the other fields
AllRequiredTruthy(d) ==
    \A k \in TriggerKeys : Truthy(Get(d, k))

\* The validation with any() in place of all()
AllRequiredAny(d) ==
    \/ \E k \in StringKeys : Truthy(Get(d, k))
    \/ Get(d, "pre") # None

\* all([election_id, country_name, election_types, year, mmdd, pre is not None])
AllRequired(d) ==
    /\ \A k \in StringKeys : Truthy(Get(d, k))
    /\ Get(d, "pre") # None

Accepted(election_id) ==
    [status |-> 202,
     body |-> [success |-> PyTrue,
               message |-> "Election analysis started in background",
               status |-> "processing",
               electionId |-> election_id,
               note |-> "Processing will continue even if request times out."]]

MissingParameters == [status |-> 400, body |-> [error |-> "Missing required parameters"]]

UnhandledError == [status |-> 500, body |-> [error |-> "str(e)"]]

\* The thread started before the validation
run_my_script_start_first(r) ==
    /\ r \in ActiveSlots(scenario)
    /\ hpc[r] = "idle"
    /\ \E body \in Bodies(scenario) :
        /\ data' = [data EXCEPT ![r] = body]
        /\ IF body = NotAnObject
           THEN /\ http_response' = [http_response EXCEPT ![r] = UnhandledError]
                /\ hpc' = [hpc EXCEPT ![r] = "returned"]
                /\ UNCHANGED << upc, request_data >>
           ELSE /\ upc' = [upc EXCEPT ![r] = "started"]
                /\ request_data' = [request_data EXCEPT ![r] = body]
                /\ IF ~AllRequired(body)
                   THEN /\ http_response' = [http_response EXCEPT ![r] = MissingParameters]
                        /\ hpc' = [hpc EXCEPT ![r] = "returned"]
                   ELSE /\ hpc' = [hpc EXCEPT ![r] = "thread_started"]
                        /\ UNCHANGED http_response
    /\ UNCHANGED scheduler_vars
    /\ UNCHANGED << scenario, calls, log, collection >>
    /\ UNCHANGED unit_vars

\* run_my_script up to processing_thread.start(): reads the body, validates
\* it, and either answers 400/500 or starts the unit with the body.
run_my_script(r) ==
    /\ r \in ActiveSlots(scenario)
    /\ hpc[r] = "idle"
    /\ \E body \in Bodies(scenario) :
        /\ data' = [data EXCEPT ![r] = body]
        /\ IF body = NotAnObject
           THEN /\ http_response' = [http_response EXCEPT ![r] = UnhandledError]
                /\ hpc' = [hpc EXCEPT ![r] = "returned"]
                /\ UNCHANGED << upc, request_data >>
           ELSE IF ~AllRequired(body)
           THEN /\ http_response' = [http_response EXCEPT ![r] = MissingParameters]
                /\ hpc' = [hpc EXCEPT ![r] = "returned"]
                /\ UNCHANGED << upc, request_data >>
           ELSE /\ hpc' = [hpc EXCEPT ![r] = "thread_started"]
                /\ upc' = [upc EXCEPT ![r] = "started"]
                /\ request_data' = [request_data EXCEPT ![r] = body]
                /\ UNCHANGED http_response
    /\ UNCHANGED scheduler_vars
    /\ UNCHANGED << scenario, calls, log, collection >>
    /\ UNCHANGED unit_vars

\* The handler joining the thread before it answers
run_my_script_return_joined(r) ==
    /\ hpc[r] = "thread_started"
    /\ upc[r] \in {"aborted", "persisted", "persist_failed"}
    /\ http_response' = [http_response EXCEPT ![r] = Accepted(Get(data[r], "electionId"))]
    /\ hpc' = [hpc EXCEPT ![r] = "returned"]
    /\ UNCHANGED scheduler_vars
    /\ UNCHANGED << scenario, data, upc, request_data, calls, log, collection >>
    /\ UNCHANGED unit_vars

\* run_my_script after processing_thread.start(): returns the 202 response
\* without joining the thread.
run_my_script_return(r) ==
    /\ hpc[r] = "thread_started"
    /\ http_response' = [http_response EXCEPT ![r] = Accepted(Get(data[r], "electionId"))]
    /\ hpc' = [hpc EXCEPT ![r] = "returned"]
    /\ UNCHANGED scheduler_vars
    /\ UNCHANGED << scenario, data, upc, request_data, calls, log, collection >>
    /\ UNCHANGED unit_vars

\* ------------------------------------------------------ the background unit
Log(r, msg, values) == log' = [log EXCEPT ![r] = Append(@, Line(msg, values))]

Issue(r, kind, schema) == calls' = [calls EXCEPT ![r] = Append(@, Call(kind, schema))]

\* The position kept in one module-level variable shared by every thread
GotoShared(r, position) == upc' = [q \in Slots |-> position]

Goto(r, position) == upc' = [upc EXCEPT ![r] = position]

\* Lines 35-68: print the request data, then read NELDA_Codebook_V5.pdf;
\* a failed read prints the error and returns.
ReadCodebook(r) ==
    /\ upc[r] = "started"
    /\ \E read_ok \in BOOLEAN :
        LET seen == Append(log[r], Line("Processing request data",
                                        [request_data |-> request_data[r]]))
        IN  IF read_ok
            THEN /\ log' = [log EXCEPT ![r] = seen]
                 /\ Goto(r, "create_prompt")
            ELSE /\ log' = [log EXCEPT ![r] =
                        Append(seen, Line("ERROR: Failed to read PDF file",
                                          [error |-> "OSError"]))]
                 /\ Goto(r, "aborted")
    /\ Issue(r, "read_codebook", {})
    /\ UNCHANGED scheduler_vars
    /\ UNCHANGED << scenario, request_data, collection >>
    /\ UNCHANGED handler_vars
    /\ UNCHANGED unit_vars

\* Lines 70-114: build the generation config and the user prompt; a failure
\* while building the prompt prints the error and returns.
CreateUserPrompt(r) ==
    /\ upc[r] = "create_prompt"
    /\ \E built \in BOOLEAN :
        IF built
        THEN /\ Goto(r, "free_text")
             /\ UNCHANGED log
        ELSE /\ Log(r, "ERROR: Failed to create user prompt content",
                      [error |-> "Exception"])
             /\ Goto(r, "aborted")
    /\ UNCHANGED scheduler_vars
    /\ UNCHANGED << scenario, request_data, calls, collection >>
    /\ UNCHANGED handler_vars
    /\ UNCHANGED unit_vars

\* Lines 116-123: the free-text generation call is sent.
FreeTextCall(r) ==
    /\ upc[r] = "free_text"
    /\ Issue(r, "free_text", {})
    /\ Goto(r, "free_text_wait")
    /\ UNCHANGED scheduler_vars
    /\ UNCHANGED << scenario, request_data, log, collection >>
    /\ UNCHANGED handler_vars
    /\ UNCHANGED unit_vars

\* The free-text stage without its return statement: after the call raised
\* the unit goes on to the structured call
FreeTextReturnNoAbort(r) ==
    /\ upc[r] = "free_text_wait"
    /\ \E raised \in BOOLEAN :
        IF raised
        THEN /\ Log(r, "ERROR: Gemini API request failed", [error |-> "Exception"])
             /\ UNCHANGED raw_response
        ELSE /\ raw_response' = [raw_response EXCEPT ![r] = RawText]
             /\ UNCHANGED log
    /\ Goto(r, "structured")
    /\ UNCHANGED scheduler_vars
    /\ UNCHANGED << scenario, request_data, calls, collection >>
    /\ UNCHANGED handler_vars
    /\ UNCHANGED << jsonResponse, parsed_response, missing_fields, still_missing,
                    mongodb_document >>

\* Lines 124-130: the free-text call returns its text, or raises and the
\* unit prints the error and returns.
FreeTextReturn(r) ==
    /\ upc[r] = "free_text_wait"
    /\ \E raised \in BOOLEAN :
        IF raised
        THEN /\ Log(r, "ERROR: Gemini API request failed", [error |-> "Exception"])
             /\ Goto(r, "aborted")
             /\ UNCHANGED raw_response
        ELSE /\ raw_response' = [raw_response EXCEPT ![r] = RawText]
             /\ Goto(r, "structured")
             /\ UNCHANGED log
    /\ UNCHANGED scheduler_vars
    /\ UNCHANGED << scenario, request_data, calls, collection >>
    /\ UNCHANGED handler_vars
    /\ UNCHANGED << jsonResponse, parsed_response, missing_fields, still_missing,
                    mongodb_document >>

\* Lines 132-178: the structured generation call is sent, its schema listing
\* every NELDA variable.
StructuredCall(r) ==
    /\ upc[r] = "structured"
    /\ Issue(r, "structured", nelda_properties)
    /\ Goto(r, "structured_wait")
    /\ UNCHANGED scheduler_vars
    /\ UNCHANGED << scenario, request_data, log, collection >>
    /\ UNCHANGED handler_vars
    /\ UNCHANGED unit_vars

\* The structured stage without its return statements: after a failure the
\* unit goes on with an empty record
StructuredReturnNoAbort(r) ==
    /\ upc[r] = "structured_wait"
    /\ \/ \E msg \in {"ERROR: JSON generation failed",
                      "ERROR: Failed to parse JSON response"} :
            /\ Log(r, msg, [error |-> "Exception"])
            /\ jsonResponse' = [jsonResponse EXCEPT ![r] = EmptyDict]
            /\ parsed_response' = [parsed_response EXCEPT ![r] = EmptyDict]
            /\ missing_fields' = [missing_fields EXCEPT ![r] = expected_fields]
       \/ \E parsed \in StructuredAnswers(scenario) :
            /\ jsonResponse' = [jsonResponse EXCEPT ![r] = parsed]
            /\ parsed_response' = [parsed_response EXCEPT ![r] = parsed]
            /\ missing_fields' = [missing_fields EXCEPT ![r] =
                                     MissingFields(expected_fields, parsed)]
            /\ Log(r, "Field validation", [found |-> Cardinality(DOMAIN parsed)])
    /\ Goto(r, "checked")
    /\ UNCHANGED scheduler_vars
    /\ UNCHANGED << scenario, request_data, calls, collection >>
    /\ UNCHANGED handler_vars
    /\ UNCHANGED << raw_response, still_missing, mongodb_document >>

\* Lines 179-201: the structured call raises (printed, return); or its text
\* is no JSON (JSONDecodeError: printed, return); or its text is None
\* (TypeError, caught by the outer handler at 306); or it parses, and the
\* missing fields are computed.
StructuredReturn(r) ==
    /\ upc[r] = "structured_wait"
    /\ \/ /\ Log(r, "ERROR: JSON generation failed", [error |-> "Exception"])
          /\ Goto(r, "aborted")
          /\ UNCHANGED << jsonResponse, parsed_response, missing_fields >>
       \/ /\ Log(r, "ERROR: Failed to parse JSON response",
                   [error |-> "JSONDecodeError", raw |-> "not json"])
          /\ Goto(r, "aborted")
          /\ UNCHANGED << jsonResponse, parsed_response, missing_fields >>
       \/ /\ Log(r, "UNHANDLED ERROR in background processing",
                   [error |-> "TypeError"])
          /\ Goto(r, "aborted")
          /\ UNCHANGED << jsonResponse, parsed_response, missing_fields >>
       \/ \E parsed \in StructuredAnswers(scenario) :
            LET missing == MissingFields(expected_fields, parsed)
            IN  /\ jsonResponse' = [jsonResponse EXCEPT ![r] = parsed]
                /\ parsed_response' = [parsed_response EXCEPT ![r] = parsed]
                /\ missing_fields' = [missing_fields EXCEPT ![r] = missing]
                /\ Log(r, "Field validation",
                         [found |-> Cardinality(DOMAIN parsed),
                          present |-> Len(expected_fields) - Len(missing)])
                /\ Goto(r, "checked")
    /\ UNCHANGED scheduler_vars
    /\ UNCHANGED << scenario, request_data, calls, collection >>
    /\ UNCHANGED handler_vars
    /\ UNCHANGED << raw_response, still_missing, mongodb_document >>

\* The follow-up reusing the full schema
MissingPropertiesAll(missing) == nelda_properties

\* missing_properties = {field: nelda_variable_schema for field in missing_fields}
MissingProperties(missing) == { missing[i] : i \in DOMAIN missing }

\* The follow-up sent without testing whether fields are missing
FollowupCallAlways(r) ==
    /\ upc[r] = "checked"
    /\ Issue(r, "followup", MissingProperties(missing_fields[r]))
    /\ Log(r, "Missing fields detected", [missing_fields |-> missing_fields[r]])
    /\ Goto(r, "followup_wait")
    /\ UNCHANGED scheduler_vars
    /\ UNCHANGED << scenario, request_data, collection >>
    /\ UNCHANGED handler_vars
    /\ UNCHANGED unit_vars

\* Lines 203-249: with fields missing, the follow-up call is sent, its schema
\* listing only the missing fields.
FollowupCall(r) ==
    /\ upc[r] = "checked"
    /\ missing_fields[r] # <<>>
    /\ Issue(r, "followup", MissingProperties(missing_fields[r]))
    /\ Log(r, "Missing fields detected", [missing_fields |-> missing_fields[r]])
    /\ Goto(r, "followup_wait")
    /\ UNCHANGED scheduler_vars
    /\ UNCHANGED << scenario, request_data, collection >>
    /\ UNCHANGED handler_vars
    /\ UNCHANGED unit_vars

\* The follow-up sent once more after it failed
FollowupReturnRetry(r) ==
    /\ upc[r] = "followup_wait"
    /\ \/ \E error \in {"Exception", "JSONDecodeError"} :
            /\ Log(r, "Follow-up request failed", [error |-> error])
            /\ IF Cardinality({ i \in DOMAIN calls[r] : calls[r][i].kind = "followup" }) < 2
               THEN Goto(r, "checked")
               ELSE Goto(r, "merged")
            /\ UNCHANGED parsed_response
       \/ \E followup_parsed \in FollowupAnswers(scenario) :
            /\ parsed_response' = [parsed_response EXCEPT ![r] =
                                      Update(@, followup_parsed)]
            /\ Log(r, "Successfully retrieved missing fields",
                   [keys |-> DOMAIN followup_parsed])
            /\ Goto(r, "merged")
    /\ UNCHANGED scheduler_vars
    /\ UNCHANGED << scenario, request_data, calls, collection >>
    /\ UNCHANGED handler_vars
    /\ UNCHANGED << raw_response, jsonResponse, missing_fields, still_missing,
                    mongodb_document >>

\* The follow-up failure treated as fatal
FollowupReturnFatal(r) ==
    /\ upc[r] = "followup_wait"
    /\ \/ \E error \in {"Exception", "JSONDecodeError"} :
            /\ Log(r, "Follow-up request failed", [error |-> error])
            /\ Goto(r, "aborted")
            /\ UNCHANGED parsed_response
       \/ \E followup_parsed \in FollowupAnswers(scenario) :
            /\ parsed_response' = [parsed_response EXCEPT ![r] =
                                      Update(@, followup_parsed)]
            /\ Log(r, "Successfully retrieved missing fields",
                   [keys |-> DOMAIN followup_parsed])
            /\ Goto(r, "merged")
    /\ UNCHANGED scheduler_vars
    /\ UNCHANGED << scenario, request_data, calls, collection >>
    /\ UNCHANGED handler_vars
    /\ UNCHANGED << raw_response, jsonResponse, missing_fields, still_missing,
                    mongodb_document >>

\* Lines 250-262: the follow-up call raises or its text does not parse
\* (printed, the unit goes on with the record it has); or it parses and is
\* merged into the record.
FollowupReturn(r) ==
    /\ upc[r] = "followup_wait"
    /\ \/ \E error \in {"Exception", "JSONDecodeError"} :
            /\ Log(r, "Follow-up request failed", [error |-> error])
            /\ UNCHANGED parsed_response
       \/ \E followup_parsed \in FollowupAnswers(scenario) :
            /\ parsed_response' = [parsed_response EXCEPT ![r] =
                                      Update(@, followup_parsed)]
            /\ Log(r, "Successfully retrieved missing fields",
                     [keys |-> DOMAIN followup_parsed])
    /\ Goto(r, "merged")
    /\ UNCHANGED scheduler_vars
    /\ UNCHANGED << scenario, request_data, calls, collection >>
    /\ UNCHANGED handler_vars
    /\ UNCHANGED << raw_response, jsonResponse, missing_fields, still_missing,
                    mongodb_document >>

\* Lines 275-292: mongodb_document
Document(req, raw, parsed, missing, still) ==
    [electionId |-> Get(req, "electionId"),
     countryName |-> Get(req, "countryName"),
     electionTypes |-> Get(req, "types"),
     year |-> Get(req, "year"),
     mmdd |-> Get(req, "mmdd"),
     pre |-> Get(req, "pre"),
     analysis_timestamp |-> Timestamp,
     raw_response |-> raw,
     nelda_coding |-> parsed,
     missing_fields_recovered |-> MissingFieldsRecovered(missing, still),
     total_fields_returned |-> TotalFieldsReturned(expected_fields, parsed),
     missing_fields |-> still]

\* Lines 264-298: the still-missing fields are computed and printed, the
\* document is assembled and store_in_mongodb is called with it.
StoreCall(r) ==
    /\ \/ upc[r] = "checked" /\ missing_fields[r] = <<>>
       \/ upc[r] = "merged"
    /\ LET still == MissingFields(expected_fields, parsed_response[r])
       IN  /\ still_missing' = [still_missing EXCEPT ![r] = still]
           /\ mongodb_document' = [mongodb_document EXCEPT ![r] =
                  Document(request_data[r], raw_response[r], parsed_response[r],
                           missing_fields[r], still)]
           /\ IF still # <<>>
              THEN Log(r, "Still missing fields after follow-up",
                         [still_missing |-> still])
              ELSE Log(r, "All NELDA fields successfully retrieved", EmptyDict)
    /\ Issue(r, "store", {})
    /\ Goto(r, "store_wait")
    /\ UNCHANGED scheduler_vars
    /\ UNCHANGED << scenario, request_data, collection >>
    /\ UNCHANGED handler_vars
    /\ UNCHANGED << raw_response, jsonResponse, parsed_response, missing_fields >>

\* The insert skipped when the collection holds a document of the same
\* election already
StoreReturnDeduplicated(r) ==
    /\ upc[r] = "store_wait"
    /\ \/ /\ collection' = [collection EXCEPT ![r] =
                IF \E q \in Slots \ {r} : \E i \in DOMAIN collection[q] :
                      collection[q][i].electionId = mongodb_document[r].electionId
                THEN @
                ELSE Append(@, mongodb_document[r])]
          /\ Log(r, "Successfully stored analysis in MongoDB",
                 [mongodb_result |-> "insertedId"])
          /\ Goto(r, "persisted")
       \/ /\ Log(r, "Failed to store in MongoDB", [error |-> "Exception"])
          /\ Goto(r, "persist_failed")
          /\ UNCHANGED collection
    /\ UNCHANGED scheduler_vars
    /\ UNCHANGED << scenario, request_data, calls >>
    /\ UNCHANGED handler_vars
    /\ UNCHANGED unit_vars

\* The store call tried again after it raised
StoreReturnRetry(r) ==
    /\ upc[r] = "store_wait"
    /\ \/ /\ collection' = [collection EXCEPT ![r] = Append(@, mongodb_document[r])]
          /\ Log(r, "Successfully stored analysis in MongoDB",
                 [mongodb_result |-> "insertedId"])
          /\ Goto(r, "persisted")
       \/ /\ Cardinality({ i \in DOMAIN calls[r] : calls[r][i].kind = "store" }) < 2
          /\ Log(r, "Failed to store in MongoDB", [error |-> "Exception"])
          /\ Goto(r, "merged")
          /\ UNCHANGED collection
       \/ /\ Log(r, "Failed to store in MongoDB", [error |-> "Exception"])
          /\ Goto(r, "persist_failed")
          /\ UNCHANGED collection
    /\ UNCHANGED scheduler_vars
    /\ UNCHANGED << scenario, request_data, calls >>
    /\ UNCHANGED handler_vars
    /\ UNCHANGED unit_vars

\* Lines 299-304 and store_in_mongodb (311-342): insert_one stores the
\* document and the id is printed; or the adapter raises (credentials
\* missing, connection or insert failure) and the unit prints the error.
StoreReturn(r) ==
    /\ upc[r] = "store_wait"
    /\ \/ /\ collection' = [collection EXCEPT ![r] = Append(@, mongodb_document[r])]
          /\ Log(r, "Successfully stored analysis in MongoDB",
                   [mongodb_result |-> "insertedId"])
          /\ Goto(r, "persisted")
       \/ /\ Log(r, "Failed to store in MongoDB", [error |-> "Exception"])
          /\ Goto(r, "persist_failed")
          /\ UNCHANGED collection
    /\ UNCHANGED scheduler_vars
    /\ UNCHANGED << scenario, request_data, calls >>
    /\ UNCHANGED handler_vars
    /\ UNCHANGED unit_vars

\* ------------------------------------------------------- the specification
\* The steps of the unit of request r
UnitNext(r) ==
    \/ ReadCodebook(r)
    \/ CreateUserPrompt(r)
    \/ FreeTextCall(r)
    \/ FreeTextReturn(r)
    \/ StructuredCall(r)
    \/ StructuredReturn(r)
    \/ FollowupCall(r)
    \/ FollowupReturn(r)
    \/ StoreCall(r)
    \/ StoreReturn(r)

Next ==
    \E r \in Slots :
        \/ run_my_script(r)
        \/ run_my_script_return(r)
        \/ ReadCodebook(r)
        \/ CreateUserPrompt(r)
        \/ FreeTextCall(r)
        \/ FreeTextReturn(r)
        \/ StructuredCall(r)
        \/ StructuredReturn(r)
        \/ FollowupCall(r)
        \/ FollowupReturn(r)
        \/ StoreCall(r)
        \/ StoreReturn(r)

\* One request, every body and every answer
Spec == Init /\ [][Next]_vars

\* Several requests in flight
SpecConcurrent == InitConcurrent /\ [][Next]_vars

\* The handler's thread is scheduled: once it can return it does.  Nothing
\* is assumed of the unit, whose external calls may never return.
FairSpec == Spec /\ \A r \in Slots : WF_vars(run_my_script_return(r))

\* The unit's thread is scheduled and every external call it makes returns
\* or raises: a unit that has a next step takes it.
FairUnitsSpec == Spec /\ \A r \in Slots : WF_vars(UnitNext(r))

\* ========================================================== the scheduler
\* -------------------------------------------------------------- the dates
DigitChars == { ToString(d) : d \in 0..9 }

\* str.isdigit for the strings of a CSV cell
IsDigits(s) == \A k \in 1..Len(s) : SubSeq(s, k, k) \in DigitChars

DigitValue(c) == CHOOSE d \in 0..9 : ToString(d) = c

RECURSIVE ToInt(_)
\* int(s) for a string of digits
ToInt(s) ==
    IF Len(s) = 0 THEN 0
    ELSE 10 * ToInt(SubSeq(s, 1, Len(s) - 1)) + DigitValue(SubSeq(s, Len(s), Len(s)))

\* s[:n] and s[n:] of a string
Prefix(s, n) == SubSeq(s, 1, IF Len(s) < n THEN Len(s) ELSE n)
Suffix(s, n) == SubSeq(s, n + 1, Len(s))

IsLeap(y) == (y % 4 = 0 /\ y % 100 # 0) \/ y % 400 = 0

DaysInMonth(y, m) ==
    IF m = 2 THEN (IF IsLeap(y) THEN 29 ELSE 28)
    ELSE IF m \in {4, 6, 9, 11} THEN 30 ELSE 31

Date(y, m, d) == [year |-> y, month |-> m, day |-> d]

\* The None that parse_date returns, written as a date no calendar has
NoDate == Date(0, 0, 0)

\* datetime.strptime(f"{year}-{month}-{day}", "%Y-%m-%d") for components
\* without a hyphen: %Y takes four digits, %m one or two digits of 1..12,
\* %d one or two digits of 1..31, and the day must exist in the month.
\* NoDate stands for the ValueError that parse_date turns into None.
Strptime(year, month, day) ==
    IF /\ Len(year) = 4 /\ IsDigits(year) /\ ToInt(year) >= 1
       /\ Len(month) \in {1, 2} /\ IsDigits(month) /\ ToInt(month) \in 1..12
       /\ Len(day) \in {1, 2} /\ IsDigits(day) /\ ToInt(day) >= 1
       /\ ToInt(day) <= DaysInMonth(ToInt(year), ToInt(month))
    THEN Date(ToInt(year), ToInt(month), ToInt(day))
    ELSE NoDate

\* mmdd[:2] raises TypeError when mmdd is None (a row shorter than the
\* header: csv.DictReader fills the missing cells with None); parse_date
\* catches ValueError only.
parse_date_raises(year, mmdd) == mmdd = None

\* Lines 51-60, for a string mmdd
parse_date(year, mmdd) == Strptime(year, Prefix(mmdd, 2), Suffix(mmdd, 2))

NextDay(date) ==
    IF date.day < DaysInMonth(date.year, date.month)
    THEN Date(date.year, date.month, date.day + 1)
    ELSE IF date.month < 12 THEN Date(date.year, date.month + 1, 1)
    ELSE Date(date.year + 1, 1, 1)

PrevDay(date) ==
    IF date.day > 1 THEN Date(date.year, date.month, date.day - 1)
    ELSE IF date.month > 1
         THEN Date(date.year, date.month - 1, DaysInMonth(date.year, date.month - 1))
    ELSE Date(date.year - 1, 12, 31)

RECURSIVE AddDays(_, _)
\* date + timedelta(days); a year outside 1..9999 stands for OverflowError
AddDays(date, days) ==
    IF days = 0 THEN date
    ELSE IF days > 0 THEN AddDays(NextDay(date), days - 1)
    ELSE AddDays(PrevDay(date), days + 1)

OutOfRange(date) == date.year < 1 \/ date.year > 9999

\* --------------------------------------------------------------- the rows
\* dict.get(key, default)
GetDefault(d, key, default) == IF key \in DOMAIN d THEN d[key] ELSE default

EventRow(id, country, types, year, mmdd) ==
    [electionId |-> id, countryName |-> country, types |-> types,
     year |-> year, mmdd |-> mmdd]

\* A row of a file whose header has no year column
RowWithoutYear == [electionId |-> "E7", countryName |-> "Peru", mmdd |-> "0411"]

\* A row with a date and a row whose date does not exist
PlainRows ==
    { EventRow("E1", "Ghana", "Presidential", "2024", "1207"),
      EventRow("E4", "Chad", "Legislative", "2025", "0230") }

\* Rows of every kind: dates whose neighbours lie in another month or year,
\* an mmdd that lost its leading zero, a row shorter than the header, a
\* row of a file without a year column
VariedRows ==
    PlainRows \cup
    { EventRow("E2", "Togo", "Presidential", "2024", "0301"),
      EventRow("E3", "Mali", "Legislative", "2025", "1231"),
      EventRow("E5", "Fiji", "Presidential", "2025", "315"),
      EventRow("E6", "Laos", "Legislative", "2025", None),
      RowWithoutYear }

\* The lists read_csv_events can return
CsvFiles ==
    UNION { [1..n -> VariedRows] : n \in 0..MaxVariedEvents }
    \cup UNION { [1..n -> PlainRows] : n \in 0..MaxEvents }

\* ------------------------------------------------------------ the requests
\* Line 175
batch_size == 5

\* Lines 62-71
create_schedule(target_date) ==
    [timezone |-> "UTC", hours |-> << 9 >>, mdays |-> << target_date.day >>,
     minutes |-> << 0 >>, months |-> << target_date.month >>, wdays |-> << -1 >>]

\* Lines 73-83
create_webhook_payload(event_data, is_pre_event) ==
    [electionId |-> GetDefault(event_data, "electionId", ""),
     countryName |-> GetDefault(event_data, "countryName", ""),
     types |-> GetDefault(event_data, "types", ""),
     year |-> GetDefault(event_data, "year", ""),
     mmdd |-> GetDefault(event_data, "mmdd", ""),
     pre |-> is_pre_event]

\* Line 92
job_name(event_data, is_pre_event) ==
    "Election_" \o GetDefault(event_data, "electionId", "unknown")
       \o "_" \o GetDefault(event_data, "countryName", "unknown")
       \o "_" \o (IF is_pre_event = PyTrue THEN "pre" ELSE "post")

\* Lines 89-108: the body of the PUT sent to the scheduling API
cronjob_data(event_data, target_date, is_pre_event) ==
    [url |-> "/runNelda",
     schedule |-> create_schedule(target_date),
     requestMethod |-> 1,
     body |-> create_webhook_payload(event_data, is_pre_event),
     title |-> job_name(event_data, is_pre_event)]

\* One entry of the timeline: a request sent, or a sleep
Put(job) ==
    [kind |-> "put", job |-> job, request |-> cronjob_data(job[1], job[2], job[3])]
Sleep(seconds) == [kind |-> "sleep", seconds |-> seconds]

\* What requests.put can do: status 200, another status, RequestException
PutOutcomes == {"200", "other_status", "RequestException"}

\* ---------------------------------------------------------- process_events
\* Lines 146 and 34-49: the rows of the file, or sys.exit(1) when the file
\* cannot be read
read_csv_events ==
    /\ spc = "not_run"
    /\ \/ \E file \in CsvFiles :
             /\ events' = file
             /\ spc' = "read"
       \/ /\ spc' = "exited"
          /\ UNCHANGED events
    /\ UNCHANGED << jobs_to_create, batch_start, batch_pos, success_count, timeline >>
    /\ UNCHANGED server_vars

\* Lines 160-172 for one event: nothing for a date that does not parse, else
\* the job two days before and the job two days after
JobsOf(event) ==
    LET event_date == parse_date(GetDefault(event, "year", ""),
                                 GetDefault(event, "mmdd", ""))
    IN  IF event_date = NoDate THEN << >>
        ELSE << << event, AddDays(event_date, -2), PyTrue >>,
                << event, AddDays(event_date, 2), PyFalse >> >>

\* The loop at 159-172 raises on this event: TypeError in parse_date, or
\* OverflowError in the date arithmetic
JobsOfRaises(event) ==
    \/ parse_date_raises(GetDefault(event, "year", ""), GetDefault(event, "mmdd", ""))
    \/ \E k \in DOMAIN JobsOf(event) : OutOfRange(JobsOf(event)[k][2])

RECURSIVE CollectJobs(_)
\* jobs_to_create after the loop at 158-172
CollectJobs(evs) ==
    IF evs = << >> THEN << >>
    ELSE JobsOf(Head(evs)) \o CollectJobs(Tail(evs))

\* Lines 148-172: return at once for an empty file; else collect the jobs.
\* An exception raised while collecting leaves process_events before any
\* request is sent.
collect_jobs ==
    /\ spc = "read"
    /\ IF events = << >>
       THEN /\ spc' = "done"
            /\ UNCHANGED jobs_to_create
       ELSE IF \E k \in DOMAIN events : JobsOfRaises(events[k])
       THEN /\ spc' = "crashed"
            /\ UNCHANGED jobs_to_create
       ELSE /\ jobs_to_create' = CollectJobs(events)
            /\ spc' = IF CollectJobs(events) = << >> THEN "done" ELSE "request"
    /\ UNCHANGED << events, batch_start, batch_pos, success_count, timeline >>
    /\ UNCHANGED server_vars

\* Line 177: jobs_to_create[i : i + batch_size]
batch ==
    SubSeq(jobs_to_create, batch_start + 1,
           IF batch_start + batch_size < Len(jobs_to_create)
           THEN batch_start + batch_size ELSE Len(jobs_to_create))

\* Lines 180-182 and 85-142: the request for the current job is sent, and
\* counted when the API answers 200
create_cronjob ==
    /\ spc = "request"
    /\ \E outcome \in PutOutcomes :
          /\ timeline' = Append(timeline, Put(batch[batch_pos + 1]))
          /\ success_count' = IF outcome = "200" THEN success_count + 1
                              ELSE success_count
    /\ spc' = "requested"
    /\ UNCHANGED << events, jobs_to_create, batch_start, batch_pos >>
    /\ UNCHANGED server_vars

\* A sleep after every request of the batch, the last included
wait_in_batch_after_each ==
    /\ spc = "requested"
    /\ batch_pos < Len(batch)
    /\ timeline' = Append(timeline, Sleep(1))
    /\ IF batch_pos < Len(batch) - 1
       THEN /\ batch_pos' = batch_pos + 1
            /\ spc' = "request"
       ELSE /\ spc' = "batch_end"
            /\ UNCHANGED batch_pos
    /\ UNCHANGED << events, jobs_to_create, batch_start, success_count >>
    /\ UNCHANGED server_vars

\* Lines 185-187: one second before the next request of the batch
wait_in_batch ==
    /\ spc = "requested"
    /\ IF batch_pos < Len(batch) - 1
       THEN /\ timeline' = Append(timeline, Sleep(1))
            /\ batch_pos' = batch_pos + 1
            /\ spc' = "request"
       ELSE /\ spc' = "batch_end"
            /\ UNCHANGED << timeline, batch_pos >>
    /\ UNCHANGED << events, jobs_to_create, batch_start, success_count >>
    /\ UNCHANGED server_vars

\* Lines 190-192 and 176: sixty seconds before the next batch
wait_between_batches ==
    /\ spc = "batch_end"
    /\ batch_start + batch_size < Len(jobs_to_create)
    /\ timeline' = Append(timeline, Sleep(60))
    /\ batch_start' = batch_start + batch_size
    /\ batch_pos' = 0
    /\ spc' = "request"
    /\ UNCHANGED << events, jobs_to_create, success_count >>
    /\ UNCHANGED server_vars

\* Lines 176 and 194: no batch is left
complete ==
    /\ spc = "batch_end"
    /\ ~(batch_start + batch_size < Len(jobs_to_create))
    /\ spc' = "done"
    /\ UNCHANGED << events, jobs_to_create, batch_start, batch_pos, success_count,
                    timeline >>
    /\ UNCHANGED server_vars

SchedulerNext ==
    \/ read_csv_events
    \/ collect_jobs
    \/ create_cronjob
    \/ wait_in_batch
    \/ wait_between_batches
    \/ complete

\* One run of the script; the server takes no request meanwhile
SchedulerSpec == Init /\ [][SchedulerNext]_vars

\* ================================================================ claims
Started(r) == upc[r] # "not_started"

Handled(r) == hpc[r] # "idle"

\* The key is in the body and its value is not the empty string
PresentNonEmpty(d, key) == key \in DOMAIN d /\ d[key] # ""

GenerationKinds == {"free_text", "structured", "followup"}

CallsOfKind(r, kinds) == { i \in DOMAIN calls[r] : calls[r][i].kind \in kinds }

Printed(r, msg) == \E i \in DOMAIN log[r] : log[r][i].msg = msg

\* Some printed line of unit r interpolates the value under the name
Reports(r, name, value) ==
    \E i \in DOMAIN log[r] :
        /\ name \in DOMAIN log[r][i].values
        /\ log[r][i].values[name] = value

\* C1 -- Merge non-overwrite: every field the first structured call returned
\* keeps its value in the record after the follow-up is merged; the
\* follow-up only supplies keys that were absent.
C1_MergeNonOverwrite ==
    \A r \in Slots :
        upc[r] \in {"merged", "store_wait", "persisted", "persist_failed"} =>
            \A k \in DOMAIN jsonResponse[r] \cap nelda_properties :
                /\ k \in DOMAIN parsed_response[r]
                /\ parsed_response[r][k] = jsonResponse[r][k]

\* C2 -- Persistence-failure fallback: when store_in_mongodb raises, what the
\* unit reports contains the computed document (or at least its raw text
\* and its structured record), not only the error.
C2_PersistFailureReportsDocument ==
    \A r \in Slots :
        upc[r] = "persist_failed" =>
            \/ Reports(r, "mongodb_document", mongodb_document[r])
            \/ /\ Reports(r, "raw_response", raw_response[r])
               /\ Reports(r, "nelda_coding", parsed_response[r])

\* C3 -- Presence vs. truthiness: a handled request whose five string fields
\* are present and non-empty and whose pre is false started a unit, and
\* once the handler has returned the answer is 202 with status "processing".
C3_PreFalseAccepted ==
    \A r \in Slots :
        ( /\ Handled(r)
          /\ \A k \in StringKeys : PresentNonEmpty(data[r], k)
          /\ "pre" \in DOMAIN data[r]
          /\ data[r]["pre"] = PyFalse )
        => /\ Started(r)
           /\ hpc[r] = "returned" =>
                /\ http_response[r].status = 202
                /\ http_response[r].body.status = "processing"

\* C3 witness: a request with pre = false was answered 202
C3_Witness ==
    \E r \in Slots :
        /\ hpc[r] = "returned"
        /\ Get(data[r], "pre") = PyFalse
        /\ http_response[r].status = 202
        /\ Started(r)

\* C4 -- Validation failure: a handled JSON object with one of the five
\* string fields absent or empty, or with pre absent, was answered 400
\* "Missing required parameters", and no unit was started and no external
\* call or store insert was made for it.
C4_ValidationFailure ==
    \A r \in Slots :
        ( /\ Handled(r)
          /\ data[r] # NotAnObject
          /\ \/ \E k \in StringKeys : ~PresentNonEmpty(data[r], k)
             \/ "pre" \notin DOMAIN data[r] )
        => /\ hpc[r] = "returned"
           /\ http_response[r] = [status |-> 400,
                                  body |-> [error |-> "Missing required parameters"]]
           /\ ~Started(r)
           /\ calls[r] = <<>>
           /\ collection[r] = <<>>

\* C4 witness: a body with pre = false but an empty mmdd was answered 400
C4_Witness ==
    \E r \in Slots :
        /\ hpc[r] = "returned"
        /\ data[r] # NotAnObject
        /\ Get(data[r], "pre") = PyFalse
        /\ Get(data[r], "mmdd") = ""
        /\ http_response[r].status = 400

\* C5 -- Acknowledgment ordering: whenever a unit has issued its first
\* generation call, the handler's 202 response has already been returned.
C5_AckBeforeFirstGenerationCall ==
    \A r \in Slots :
        CallsOfKind(r, GenerationKinds) # {} => http_response[r].status = 202

\* C6 -- Non-blocking acknowledgment: once the handler has started the unit
\* it eventually returns the 202 response, whatever the unit does, also
\* when the unit's generation call never returns.
C6_AcknowledgedWithoutWaiting ==
    \A r \in Slots :
        (hpc[r] = "thread_started") ~> (http_response[r].status = 202)

\* C6 witness: the 202 was returned while the free-text call is still out
C6_Witness ==
    \E r \in Slots :
        /\ http_response[r].status = 202
        /\ upc[r] = "free_text_wait"

AfterStoreCall(r) == upc[r] \in {"store_wait", "persisted", "persist_failed"}

SetOf(list) == { list[i] : i \in DOMAIN list }

\* C7 -- Follow-up failure is non-fatal: after a failed follow-up the unit is
\* not aborted and its next step is the store call; the document handed to
\* the store holds exactly the first record, lists exactly the originally
\* missing fields and counts 0 recovered.
C7_FollowupFailureNonFatal ==
    \A r \in Slots :
        Printed(r, "Follow-up request failed") =>
            /\ upc[r] # "aborted"
            /\ upc[r] = "merged" \/ AfterStoreCall(r)
            /\ upc[r] = "merged" => ENABLED StoreCall(r)
            /\ AfterStoreCall(r) =>
                /\ CallsOfKind(r, {"store"}) # {}
                /\ mongodb_document[r].nelda_coding = jsonResponse[r]
                /\ mongodb_document[r].missing_fields = missing_fields[r]
                /\ SetOf(mongodb_document[r].missing_fields)
                     = nelda_properties \ DOMAIN jsonResponse[r]
                /\ mongodb_document[r].missing_fields # <<>>
                /\ mongodb_document[r].missing_fields_recovered = 0

\* C7 witness: a document with one field of the first record was handed to
\* the store after the follow-up failed
C7_Witness ==
    \E r \in Slots :
        /\ Printed(r, "Follow-up request failed")
        /\ AfterStoreCall(r)
        /\ DOMAIN mongodb_document[r].nelda_coding = {Field(1)}
        /\ Len(mongodb_document[r].missing_fields) = NumFields - 1

\* C8 -- Follow-up scoping: the schema of every follow-up call lists exactly
\* the expected fields absent from the first record: none that the record
\* has, none outside the expected fields.
C8_FollowupScoping ==
    \A r \in Slots :
        \A i \in CallsOfKind(r, {"followup"}) :
            /\ calls[r][i].schema = nelda_properties \ DOMAIN jsonResponse[r]
            /\ calls[r][i].schema \cap DOMAIN jsonResponse[r] = {}
            /\ calls[r][i].schema \subseteq { Field(n) : n \in 1..NumFields }

\* C8 witness: a follow-up was sent for a record that has some expected
\* fields and lacks others
C8_Witness ==
    \E r \in Slots :
        /\ CallsOfKind(r, {"followup"}) # {}
        /\ DOMAIN jsonResponse[r] \cap nelda_properties # {}
        /\ nelda_properties \ DOMAIN jsonResponse[r] # {}

\* The number n of the field NELDAn
Number(field) == CHOOSE n \in 1..NumFields : Field(n) = field

\* The list holds exactly the expected fields that are no key of the
\* mapping, each once, in the order of the expected list
IsMissingOf(list, mapping) ==
    /\ SetOf(list) = nelda_properties \ DOMAIN mapping
    /\ \A i, j \in DOMAIN list : i < j => Number(list[i]) < Number(list[j])
    /\ DOMAIN mapping = {} => list = expected_fields
    /\ nelda_properties \subseteq DOMAIN mapping => list = <<>>

\* C9 -- Completeness-checker correctness: the list computed before the
\* follow-up is E minus the keys of the first record, and the list computed
\* after the merge is E minus the keys of the merged record, both in the
\* order of E without duplicates (all of E for an empty record, empty for a
\* record with every field).
C9_CompletenessChecker ==
    \A r \in Slots :
        /\ upc[r] \in {"checked", "followup_wait"} \/ AfterStoreCall(r) \/ upc[r] = "merged"
              => IsMissingOf(missing_fields[r], jsonResponse[r])
        /\ AfterStoreCall(r)
              => IsMissingOf(still_missing[r], parsed_response[r])

\* C9 witness: the first record was empty, so every field was missing, and
\* the follow-up left two fields missing
C9_Witness ==
    \E r \in Slots :
        /\ AfterStoreCall(r)
        /\ DOMAIN jsonResponse[r] = {}
        /\ missing_fields[r] = expected_fields
        /\ Len(still_missing[r]) = 2

\* The unit printed one of the messages
PrintedAny(r, msgs) == \E msg \in msgs : Printed(r, msg)

ReadFailures ==
    {"ERROR: Failed to read PDF file", "ERROR: Failed to create user prompt content"}

FreeTextFailures == {"ERROR: Gemini API request failed"}

StructuredFailures ==
    {"ERROR: JSON generation failed", "ERROR: Failed to parse JSON response",
     "UNHANDLED ERROR in background processing"}

\* C10 -- No persistence on mid-pipeline failure: a unit that failed to read
\* the codebook made no generation call; one whose free-text call raised
\* made that call only; one whose structured call raised or did not parse
\* made those two calls only; none of them called the store, assembled or
\* stored a document, and none takes a further step.
C10_NoPersistenceOnFailure ==
    \A r \in Slots :
        /\ PrintedAny(r, ReadFailures)
              => CallsOfKind(r, GenerationKinds) = {}
        /\ PrintedAny(r, FreeTextFailures)
              => Cardinality(CallsOfKind(r, GenerationKinds)) = 1
        /\ PrintedAny(r, StructuredFailures)
              => /\ Cardinality(CallsOfKind(r, GenerationKinds)) = 2
                 /\ CallsOfKind(r, {"followup"}) = {}
        /\ PrintedAny(r, ReadFailures \cup FreeTextFailures \cup StructuredFailures)
              => /\ upc[r] = "aborted"
                 /\ ~ENABLED UnitNext(r)
                 /\ CallsOfKind(r, {"store"}) = {}
                 /\ mongodb_document[r] = NoDocument
                 /\ collection[r] = <<>>

\* C10 witness: the structured response did not parse and the unit stopped
\* after its two generation calls
C10_Witness ==
    \E r \in Slots :
        /\ Printed(r, "ERROR: Failed to parse JSON response")
        /\ upc[r] = "aborted"
        /\ Cardinality(CallsOfKind(r, GenerationKinds)) = 2


Terminal(r) == upc[r] \in {"aborted", "persisted", "persist_failed"}

\* The unit's structured response parsed (every earlier stage succeeded)
Parsed(r) == upc[r] \in {"checked", "followup_wait", "merged"} \/ AfterStoreCall(r)

\* C11 -- Persist exactly once: a unit whose read, free-text call, structured
\* call and parse succeeded is never aborted and always has a next step
\* until the store call returned; once it called the store it did so
\* exactly once, as its last external call, whether a follow-up ran or not;
\* no unit calls the store twice or inserts more than one document.
C11_PersistExactlyOnce ==
    \A r \in Slots :
        /\ Cardinality(CallsOfKind(r, {"store"})) <= 1
        /\ Len(collection[r]) <= 1
        /\ Printed(r, "Field validation") => Parsed(r)
        /\ (Parsed(r) /\ ~Terminal(r)) => ENABLED UnitNext(r)
        /\ (Parsed(r) /\ ~AfterStoreCall(r)) => CallsOfKind(r, {"store"}) = {}
        /\ AfterStoreCall(r) => CallsOfKind(r, {"store"}) = {Len(calls[r])}
        /\ Terminal(r) => ~ENABLED UnitNext(r)

\* C11 witness: the store raised after a follow-up ran, and the store call
\* is the fifth and last call of the unit
C11_Witness ==
    \E r \in Slots :
        /\ upc[r] = "persist_failed"
        /\ CallsOfKind(r, {"followup"}) # {}
        /\ CallsOfKind(r, {"store"}) = {5}


\* C12 -- All fields present on first pass: a unit whose first structured
\* record holds every expected field issues no follow-up call, and the
\* document it hands to the store has no missing field, 0 recovered fields
\* and as many returned fields as there are expected fields.
C12_AllPresentFirstPass ==
    \A r \in Slots :
        (Parsed(r) /\ nelda_properties \subseteq DOMAIN jsonResponse[r]) =>
            /\ CallsOfKind(r, {"followup"}) = {}
            /\ upc[r] \notin {"followup_wait", "merged"}
            /\ AfterStoreCall(r) =>
                /\ mongodb_document[r].missing_fields = <<>>
                /\ mongodb_document[r].missing_fields_recovered = 0
                /\ mongodb_document[r].total_fields_returned = NumFields

\* C12 witness: a complete first record was stored
C12_Witness ==
    \E r \in Slots :
        /\ upc[r] = "persisted"
        /\ DOMAIN jsonResponse[r] = nelda_properties
        /\ Len(calls[r]) = 4
        /\ collection[r] = << mongodb_document[r] >>


\* C13 -- Partial recovery bookkeeping: in every document handed to the store
\* missing_fields_recovered is the number of originally missing fields that
\* the record holds after the merge, between 0 and the number originally
\* missing; when the follow-up answered with exactly the missing fields, the
\* document holds every expected field, lists no missing field and counts
\* all the originally missing ones as recovered.
C13_PartialRecovery ==
    \A r \in Slots :
        AfterStoreCall(r) =>
            LET doc == mongodb_document[r]
                originally == SetOf(missing_fields[r])
            IN  /\ doc.missing_fields_recovered
                     = Cardinality(originally \cap DOMAIN doc.nelda_coding)
                /\ doc.missing_fields_recovered >= 0
                /\ doc.missing_fields_recovered <= Len(missing_fields[r])
                /\ Cardinality(originally)
                     = NumFields - Cardinality(DOMAIN jsonResponse[r] \cap nelda_properties)
                /\ (originally # {} /\ Reports(r, "keys", originally)) =>
                      /\ nelda_properties \subseteq DOMAIN doc.nelda_coding
                      /\ doc.missing_fields = <<>>
                      /\ doc.missing_fields_recovered = Len(missing_fields[r])
                      /\ doc.total_fields_returned = NumFields

\* C13 witness: the first record had one field, the follow-up answered with
\* the others, and the document counts them all as recovered
C13_Witness ==
    \E r \in Slots :
        /\ AfterStoreCall(r)
        /\ DOMAIN jsonResponse[r] = {Field(1)}
        /\ Reports(r, "keys", nelda_properties \ {Field(1)})
        /\ mongodb_document[r].missing_fields_recovered = NumFields - 1
        /\ mongodb_document[r].missing_fields = <<>>


\* Everything the handler and the unit of request r hold
SlotState(r) ==
    << hpc[r], data[r], http_response[r], upc[r], request_data[r], raw_response[r],
       jsonResponse[r], parsed_response[r], missing_fields[r], still_missing[r],
       mongodb_document[r], calls[r], log[r], collection[r] >>

Failed(r) == upc[r] \in {"aborted", "persist_failed"}

\* A step of request r, a failure included, leaves every other request as
\* it was
StepsAreLocal ==
    \A r \in Slots :
        SlotState(r)' # SlotState(r) =>
            \A q \in Slots \ {r} : SlotState(q)' = SlotState(q)

\* Whatever the other units did, a unit in progress has its next step, the
\* endpoint takes the next request, and a valid trigger is accepted
NeverBlockedByOthers ==
    \A q \in Slots :
        /\ (Started(q) /\ ~Terminal(q)) => ENABLED UnitNext(q)
        /\ hpc[q] = "idle" => ENABLED run_my_script(q)
        /\ (Handled(q) /\ data[q] = ValidBody(PyTrue)) =>
              /\ Started(q)
              /\ hpc[q] = "returned" => http_response[q].status = 202

\* C14 -- Failure isolation: with several units in flight, every step, a
\* failure at any stage included, changes the state of one request only
\* (units share no mutable state), a unit in progress always has its next
\* step whatever the others did, and the endpoint still takes requests and
\* accepts a valid trigger with 202.
C14_FailureIsolation == [][StepsAreLocal]_vars /\ []NeverBlockedByOthers

\* C14 witness: one unit aborted, another failed at the store, and a third
\* request, or the second, was accepted and its document stored
C14_Witness ==
    \E r, q \in Slots :
        /\ r # q
        /\ upc[r] = "aborted"
        /\ upc[q] = "persisted"
        /\ http_response[q].status = 202
        /\ Len(collection[q]) = 1


\* The request was handled and its body has the five string fields
\* non-empty and a pre
WellFormedTrigger(r) ==
    /\ Handled(r)
    /\ data[r] # NotAnObject
    /\ \A k \in StringKeys : PresentNonEmpty(data[r], k)
    /\ "pre" \in DOMAIN data[r]

\* C15 -- No deduplication: of two accepted triggers with the same
\* electionId each has its own unit working on its own copy of the trigger,
\* each unit in progress has its next step whatever the position of the
\* other, and when both are persisted the store holds one document of
\* each, two in all.
C15_NoDeduplication ==
    \A r, q \in Slots :
        ( /\ r # q
          /\ WellFormedTrigger(r)
          /\ WellFormedTrigger(q)
          /\ data[r]["electionId"] = data[q]["electionId"] )
        => /\ Started(r) /\ Started(q)
           /\ request_data[r] = data[r]
           /\ ~Terminal(r) => ENABLED UnitNext(r)
           /\ (upc[r] = "persisted" /\ upc[q] = "persisted") =>
                /\ collection[r] = << mongodb_document[r] >>
                /\ collection[q] = << mongodb_document[q] >>
                /\ Len(collection[r]) + Len(collection[q]) = 2

\* C15 witness: two triggers of the same election were both persisted, one
\* document each
C15_Witness ==
    \E r, q \in Slots :
        /\ r # q
        /\ upc[r] = "persisted" /\ upc[q] = "persisted"
        /\ data[r]["electionId"] = data[q]["electionId"]
        /\ Len(collection[r]) = 1 /\ Len(collection[q]) = 1
        /\ collection[r][1].electionId = collection[q][1].electionId


\* How far along process_nelda_analysis_background a position is
Rank(position) ==
    CASE position = "not_started" -> 0
      [] position = "started" -> 1
      [] position = "create_prompt" -> 2
      [] position = "free_text" -> 3
      [] position = "free_text_wait" -> 4
      [] position = "structured" -> 5
      [] position = "structured_wait" -> 6
      [] position = "checked" -> 7
      [] position = "followup_wait" -> 8
      [] position = "merged" -> 9
      [] position = "store_wait" -> 10
      [] position \in {"aborted", "persisted", "persist_failed"} -> 11

\* A step that moves a unit moves it forward
NoStageReentered ==
    \A r \in Slots : upc'[r] # upc[r] => Rank(upc'[r]) > Rank(upc[r])

\* C16 -- Termination: with every external call returning or raising, every
\* started unit reaches a terminal position (persisted, persist_failed or
\* aborted); there it has no further step, and on the way no stage is
\* entered twice.
C16_Termination ==
    /\ \A r \in Slots : Started(r) ~> Terminal(r)
    /\ [](\A r \in Slots : Terminal(r) => ~ENABLED UnitNext(r))
    /\ [][NoStageReentered]_vars

\* C16 witness: a unit ended at persist_failed after a follow-up
C16_Witness ==
    \E r \in Slots :
        /\ upc[r] = "persist_failed"
        /\ Printed(r, "Successfully retrieved missing fields")
        /\ ~ENABLED UnitNext(r)


\* C17 -- Follow-up result restricted to requested fields: after a follow-up
\* that parsed, the keys the merge added to a record of expected fields are
\* among the requested (missing) fields, so the nelda_coding handed to the
\* store has only expected fields as keys and has every key of the record
\* before the merge.
C17_FollowupRestrictedToRequested ==
    \A r \in Slots :
        ( /\ AfterStoreCall(r)
          /\ Printed(r, "Successfully retrieved missing fields")
          /\ DOMAIN jsonResponse[r] \subseteq nelda_properties )
        => LET coding == mongodb_document[r].nelda_coding
           IN  /\ DOMAIN coding \ DOMAIN jsonResponse[r] \subseteq SetOf(missing_fields[r])
               /\ DOMAIN coding \subseteq nelda_properties
               /\ DOMAIN jsonResponse[r] \subseteq DOMAIN coding


\* C18 -- Malformed triggers are client errors: a handled request whose body
\* is no JSON object, or lacks a required field, was answered with a 4xx
\* status and started no unit.
C18_MalformedIsClientError ==
    \A r \in Slots :
        (Handled(r) /\ ~WellFormedTrigger(r)) =>
            /\ hpc[r] = "returned"
            /\ http_response[r].status \in 400..499
            /\ ~Started(r)
            /\ calls[r] = <<>>


\* The kinds of the external calls of unit r, in the order issued
Kinds(r) == [i \in DOMAIN calls[r] |-> calls[r][i].kind]

IsPrefix(s, t) == Len(s) <= Len(t) /\ \A i \in DOMAIN s : s[i] = t[i]

OrderWithFollowup == << "read_codebook", "free_text", "structured", "followup", "store" >>

OrderWithoutFollowup == << "read_codebook", "free_text", "structured", "store" >>

Issued(r, kind) == CallsOfKind(r, {kind}) # {}

\* C19 -- Strict stage order without retries: the external calls of a unit
\* are an initial part of read, free-text, structured, follow-up, store or
\* of the same without the follow-up, so each is issued at most once and at
\* most three are generation calls; and a call is issued only after the one
\* before it returned successfully (the store also after a follow-up that
\* failed).
C19_StrictStageOrder ==
    \A r \in Slots :
        /\ IsPrefix(Kinds(r), OrderWithFollowup) \/ IsPrefix(Kinds(r), OrderWithoutFollowup)
        /\ Cardinality(CallsOfKind(r, GenerationKinds)) <= 3
        /\ Issued(r, "free_text") => ~PrintedAny(r, ReadFailures)
        /\ Issued(r, "structured") =>
              /\ raw_response[r] = RawText
              /\ ~PrintedAny(r, FreeTextFailures)
        /\ (Issued(r, "followup") \/ Issued(r, "store")) =>
              /\ Printed(r, "Field validation")
              /\ ~PrintedAny(r, StructuredFailures)
        /\ (Issued(r, "followup") /\ Issued(r, "store")) =>
              \/ Printed(r, "Successfully retrieved missing fields")
              \/ Printed(r, "Follow-up request failed")

\* C19 witness: a unit made all five calls, three of them generation calls
C19_Witness ==
    \E r \in Slots :
        /\ Kinds(r) = OrderWithFollowup
        /\ Cardinality(CallsOfKind(r, GenerationKinds)) = 3
        /\ upc[r] = "persisted"


UnitsStarted == { r \in Slots : Started(r) }

Answered(statuses) == { r \in Slots : http_response[r].status \in statuses }

\* C20 -- Units started match acceptances: a request answered 202 has
\* started a unit, which begins once; a request answered 400 or 500 has
\* started none; and whenever no handler is between starting its thread and
\* returning, the units started are as many as the 202 responses.
C20_UnitsMatchAcceptances ==
    /\ \A r \in Slots :
        /\ http_response[r].status = 202 => Started(r)
        /\ http_response[r].status \in {400, 500} => ~Started(r)
        /\ hpc[r] = "returned" => http_response[r].status \in {202, 400, 500}
        /\ Cardinality(CallsOfKind(r, {"read_codebook"})) <= 1
    /\ (\A r \in Slots : hpc[r] # "thread_started") =>
          /\ UnitsStarted = Answered({202})
          /\ Cardinality(UnitsStarted) = Cardinality(Answered({202}))

\* C20 witness: every request was answered, one with 202 and one with 400,
\* and one unit was started
C20_Witness ==
    /\ \A r \in Slots : hpc[r] = "returned"
    /\ Answered({202}) # {}
    /\ Answered({400}) # {}
    /\ Cardinality(UnitsStarted) = Cardinality(Answered({202}))


\* The trigger fields of the document next to the keys of the request body
\* they are read from
TriggerFieldOf ==
    [electionId |-> "electionId", countryName |-> "countryName",
     electionTypes |-> "types", year |-> "year", mmdd |-> "mmdd", pre |-> "pre"]

\* C21 -- Provenance document consistency: in every document handed to the
\* store, missing_fields is the list of the expected fields that are no key
\* of nelda_coding, in the order of the expected list; total_fields_returned
\* is the number of expected fields that are keys of nelda_coding; the two
\* add up to the number of expected fields; and each trigger field equals the
\* value the accepted request body had for it.
C21_ProvenanceConsistency ==
    \A r \in Slots :
        AfterStoreCall(r) =>
            LET doc == mongodb_document[r]
                coding == doc.nelda_coding
            IN  /\ coding = parsed_response[r]
                /\ IsMissingOf(doc.missing_fields, coding)
                /\ doc.missing_fields
                     = SelectSeq(expected_fields, LAMBDA f : f \notin DOMAIN coding)
                /\ doc.total_fields_returned
                     = Cardinality(nelda_properties \cap DOMAIN coding)
                /\ doc.total_fields_returned + Len(doc.missing_fields) = NumFields
                /\ AllRequired(data[r])
                /\ \A k \in DOMAIN TriggerFieldOf :
                      doc[k] = data[r][TriggerFieldOf[k]]

\* C21 witness: a document for a request with pre = false was handed to the
\* store; its coding has one expected field and a key outside the expected
\* fields, so the count of fields differs from the number of keys
C21_Witness ==
    \E r \in Slots :
        /\ AfterStoreCall(r)
        /\ mongodb_document[r].pre = PyFalse
        /\ DOMAIN mongodb_document[r].nelda_coding = {Field(2), OtherKey}
        /\ mongodb_document[r].total_fields_returned = 1
        /\ Len(mongodb_document[r].missing_fields) = NumFields - 1


\* The requests of the timeline, in order
Puts == SelectSeq(timeline, LAMBDA e : e.kind = "put")

\* The sleeps of sixty seconds among the entries from..to of the timeline
LongSleeps(from, to) ==
    { k \in from..to : timeline[k] = Sleep(60) }

\* The place of the n-th request in the timeline
PlaceOfPut(n) ==
    CHOOSE k \in DOMAIN timeline :
        /\ timeline[k].kind = "put"
        /\ Cardinality({ m \in 1..k : timeline[m].kind = "put" }) = n

\* C22 -- Scheduler rate limiting: the requests go out in the order of
\* jobs_to_create, whatever the API answered; the timeline alternates
\* request and sleep, starting with a request; the sleep after the n-th
\* request lasts 60 seconds when n is a multiple of 5 and 1 second
\* otherwise; a sleep is always followed by another request, so none follows
\* the last one and at the end every job was sent; and any 6 consecutive
\* requests have a sleep of 60 seconds among them.
C22_RateLimiting ==
    /\ Len(Puts) <= Len(jobs_to_create)
    /\ \A n \in DOMAIN Puts : Puts[n].job = jobs_to_create[n]
    /\ \A k \in DOMAIN timeline :
          IF k % 2 = 1
          THEN timeline[k].kind = "put"
          ELSE timeline[k] = Sleep(IF (k \div 2) % 5 = 0 THEN 60 ELSE 1)
    /\ (timeline # << >> /\ timeline[Len(timeline)].kind = "sleep") =>
          /\ spc = "request"
          /\ Len(Puts) < Len(jobs_to_create)
    /\ spc = "done" =>
          /\ Len(Puts) = Len(jobs_to_create)
          /\ timeline # << >> => timeline[Len(timeline)].kind = "put"
          /\ success_count \in 0..Len(Puts)
    /\ \A n \in DOMAIN Puts :
          n + 5 <= Len(Puts) =>
              LongSleeps(PlaceOfPut(n), PlaceOfPut(n + 5)) # {}
    /\ \A n \in DOMAIN Puts :
          (n < Len(Puts) /\ LongSleeps(PlaceOfPut(n), PlaceOfPut(n + 1)) = {}) =>
              /\ PlaceOfPut(n + 1) = PlaceOfPut(n) + 2
              /\ timeline[PlaceOfPut(n) + 1] = Sleep(1)

\* C22 witness: a run of three batches ended, two sleeps of sixty seconds
\* in it, with some requests refused by the API
C22_Witness ==
    /\ spc = "done"
    /\ Len(Puts) = 12
    /\ Cardinality(LongSleeps(1, Len(timeline))) = 2
    /\ success_count = 3


\* The year and mmdd of the event parse to a date
HasDate(event) ==
    /\ GetDefault(event, "mmdd", "") # None
    /\ parse_date(GetDefault(event, "year", ""), GetDefault(event, "mmdd", "")) # NoDate

BaseDate(event) ==
    parse_date(GetDefault(event, "year", ""), GetDefault(event, "mmdd", ""))

\* The request is the job of the event at the date, with the flag, and its
\* payload carries the five fields of the event and the flag
IsJobOf(put, event, target_date, is_pre_event) ==
    /\ put.job = << event, target_date, is_pre_event >>
    /\ put.request.schedule.mdays = << target_date.day >>
    /\ put.request.schedule.months = << target_date.month >>
    /\ put.request.body.pre = is_pre_event
    /\ \A key \in {"electionId", "countryName", "types", "year", "mmdd"} :
          put.request.body[key] = GetDefault(event, key, "")

\* C23 -- Scheduler job production: when process_events has ended, the
\* requests it sent are, for each event of the file whose year and mmdd
\* parse to a date and in the order of the file, first the job two days
\* before the date with pre = true, then the job two days after it with
\* pre = false, each carrying the event's electionId, countryName, types,
\* year and mmdd; the other events have no request, so the requests are
\* twice as many as the events with a date.
C23_JobProduction ==
    spc \in {"done", "crashed"} =>
        LET valid == SelectSeq(events, HasDate)
        IN  /\ Len(Puts) = 2 * Len(valid)
            /\ \A n \in DOMAIN valid :
                  /\ 2 * n <= Len(Puts)
                  /\ IsJobOf(Puts[2 * n - 1], valid[n],
                             AddDays(BaseDate(valid[n]), -2), PyTrue)
                  /\ IsJobOf(Puts[2 * n], valid[n],
                             AddDays(BaseDate(valid[n]), 2), PyFalse)

====
